---- MODULE Spec2Model ----
(***************************************************************************)
(* Forward computation of the graph layers of the notebooks                *)
(*   gnns/gat.ipynb   (GAT layer in NumPy, its DGL reference, multi-head)   *)
(*   gnns/rgcn.ipynb  (GNN / GCN / R-GCN layers in NumPy).                  *)
(*                                                                         *)
(* Conventions.                                                            *)
(*  - A matrix is a sequence of rows; indices are 1..n where the NumPy     *)
(*    code uses 0..n-1.  The empty tuple << >> is a name not yet bound.    *)
(*  - Weights and attention coefficients are integers, so projections and  *)
(*    raw scores are exact.  A quotient is the pair <<num, den>> in lowest *)
(*    terms; <<1,0>> is IEEE inf and <<0,0>> is IEEE nan.  Floating-point   *)
(*    rounding is not modelled.                                            *)
(*  - leaky_relu yields hundredths: the slope 0.01 is 1/SlopeDen.          *)
(*  - np.exp is a fixed-point function on arguments <= 0 (see Exp).        *)
(*  - A cell is one action.  The assert lines of the cells test values of  *)
(*    the seeded run (np.random.seed(1)) and are not steps of the layers.  *)
(***************************************************************************)
EXTENDS Integers, Sequences, FiniteSets, TLC

VARIABLES
    pc,          \* the notebook cell to run next
    err,         \* "none", or the exception that ended the run
    X, W, A,     \* features, weights, adjacency (both notebooks)
    \* gat.ipynb
    z1, edge_coords, z2, att, e, e_matr, alpha, A_scaled, ND_GAT, h,
    layer1, layer2, concat, average,
    \* rgcn.ipynb
    A_und, L_0, ND_GNN, D, D_rec, ND_GCN,
    num_rels, W_rel1, W_rel2, W_rels, L_0_rels, A_rel1, A_rel2, A_rels, RGCN,
    \* MultiHeadGATTestLayer
    head_outs, merge, merged,
    \* the basic functions called on a vector: argument, shift, results
    z_in, c_in, lr_out, a_out, a_shifted

gatVars  == <<z1, edge_coords, z2, att, e, e_matr, alpha, A_scaled,
              ND_GAT, h,
              layer1, layer2, concat, average>>
rgcnVars == <<A_und, L_0, ND_GNN, D, D_rec, ND_GCN,
              num_rels, W_rel1, W_rel2, W_rels, L_0_rels, A_rel1, A_rel2,
              A_rels, RGCN>>
headVars == <<head_outs, merge, merged>>
callVars == <<z_in, c_in, lr_out, a_out, a_shifted>>
vars     == <<pc, err, X, W, A, gatVars, rgcnVars, headVars, callVars>>

---------------------------------------------------------------------------
(* Sizes *)

\* Number of nodes.  The notebooks run with 5; the model is instantiated
\* at NumNodes.
NumNodes == 3

n == NumNodes

\* Embedding dimension.
emb == 3

\* Denominator of the leaky_relu slope (z * 0.01).
SlopeDen == 100

\* Fixed-point value of exp(0).
ExpOne == 4 * SlopeDen

None == << >>

---------------------------------------------------------------------------
(* Integer and rational arithmetic *)

Abs(x) == IF x < 0 THEN -x ELSE x

RECURSIVE GCD(_, _)
GCD(a, b) == IF b = 0 THEN a ELSE GCD(b, a % b)

\* num/den in lowest terms with den >= 0; x/0 is inf (x > 0), -inf or nan.
Rat(num, den) ==
    IF den = 0
    THEN <<(IF num > 0 THEN 1 ELSE IF num < 0 THEN -1 ELSE 0), 0>>
    ELSE LET s == IF den < 0 THEN -1 ELSE 1
             g == GCD(Abs(num), Abs(den))
         IN  <<(s * num) \div g, (s * den) \div g>>

RInt(k) == <<k, 1>>
RZero == RInt(0)
ROne == RInt(1)
Inf == <<1, 0>>
NaN == <<0, 0>>

IsFinite(q) == q[2] # 0

\* IEEE sum and product: nan is absorbing, inf - inf and 0 * inf are nan.
RAdd(p, q) ==
    IF p = NaN \/ q = NaN THEN NaN
    ELSE IF ~IsFinite(p) /\ ~IsFinite(q) THEN (IF p = q THEN p ELSE NaN)
    ELSE IF ~IsFinite(p) THEN p
    ELSE IF ~IsFinite(q) THEN q
    ELSE LET g == GCD(p[2], q[2])
         IN  Rat(p[1] * (q[2] \div g) + q[1] * (p[2] \div g),
                 p[2] * (q[2] \div g))

RMul(p, q) == Rat(p[1] * q[1], p[2] * q[2])

RECURSIVE RSum(_)
RSum(s) == IF s = << >> THEN RZero ELSE RAdd(Head(s), RSum(Tail(s)))

RECURSIVE Sum(_)
Sum(s) == IF s = << >> THEN 0 ELSE Head(s) + Sum(Tail(s))

RECURSIVE Max(_)
Max(s) == IF Len(s) = 1 THEN s[1]
          ELSE LET m == Max(Tail(s)) IN IF s[1] > m THEN s[1] ELSE m

RECURSIVE Flatten(_)
Flatten(ss) == IF ss = << >> THEN << >> ELSE Head(ss) \o Flatten(Tail(ss))

---------------------------------------------------------------------------
(* NumPy array operations *)

Rows(M) == Len(M)
Cols(M) == IF M = << >> THEN 0 ELSE Len(M[1])

Zeros(r, c) == [i \in 1..r |-> [j \in 1..c |-> 0]]

\* np.eye(n, n)
Eye(k) == [i \in 1..k |-> [j \in 1..k |-> IF i = j THEN 1 ELSE 0]]

\* M.T
Transpose(M) == [j \in 1..Cols(M) |-> [i \in 1..Rows(M) |-> M[i][j]]]

\* A faulty product: the left matrix read transposed.
Dot_TransposedLeft(M1, M2) ==
    [i \in 1..Rows(M1) |-> [c \in 1..Cols(M2) |->
        Sum([k \in 1..Rows(M2) |-> M1[k][i] * M2[k][c]])]]

\* M1.dot(M2) on integer matrices
Dot(M1, M2) ==
    [i \in 1..Rows(M1) |-> [c \in 1..Cols(M2) |->
        Sum([k \in 1..Rows(M2) |-> M1[i][k] * M2[k][c]])]]

\* M1.dot(M2) with M1 a matrix of quotients and M2 an integer matrix
RDot(M1, M2) ==
    [i \in 1..Rows(M1) |-> [c \in 1..Cols(M2) |->
        RSum([k \in 1..Rows(M2) |-> RMul(M1[i][k], RInt(M2[k][c]))])]]

\* A faulty fill: the diagonal is left as it is.
FillDiagonal_Skipped(M, v) == M

\* np.fill_diagonal(M, v)
FillDiagonal(M, v) ==
    [i \in 1..Rows(M) |-> [j \in 1..Cols(M) |-> IF i = j THEN v ELSE M[i][j]]]

\* A faulty symmetrization: the sum M + M.T without the clipping to 1.
Symmetrize_Unclipped(M) ==
    [i \in 1..Rows(M) |-> [j \in 1..Cols(M) |-> M[i][j] + M[j][i]]]

\* M + M.T followed by M[M > 1] = 1
Symmetrize(M) ==
    [i \in 1..Rows(M) |-> [j \in 1..Cols(M) |->
        LET s == M[i][j] + M[j][i] IN IF s > 1 THEN 1 ELSE s]]

\* The positions (i, j), row by row, at which M[i][j] = 1.
RECURSIVE WhereFrom(_, _)
WhereFrom(M, k) ==
    IF k > Rows(M) * Cols(M) THEN << >>
    ELSE LET i == ((k - 1) \div Cols(M)) + 1
             j == ((k - 1) % Cols(M)) + 1
         IN  (IF M[i][j] = 1 THEN << <<i, j>> >> ELSE << >>)
             \o WhereFrom(M, k + 1)

\* np.where(M == 1): the pair (row indices, column indices)
Where(M) ==
    LET ps == WhereFrom(M, 1)
    IN  << [k \in 1..Len(ps) |-> ps[k][1]], [k \in 1..Len(ps) |-> ps[k][2]] >>

\* np.zeros(shape); Z[rows, cols] = vals   (fancy-index assignment; a later
\* duplicate position overwrites an earlier one)
Scatter(r, c, zero, coords, vals) ==
    [i \in 1..r |-> [j \in 1..c |->
        LET ks == {k \in 1..Len(vals) : coords[1][k] = i /\ coords[2][k] = j}
        IN  IF ks = {} THEN zero
            ELSE vals[CHOOSE k \in ks : \A k2 \in ks : k2 <= k]]]

\* v[v != zero] for a vector v
RECURSIVE NonZero(_, _)
NonZero(v, zero) ==
    IF v = << >> THEN << >>
    ELSE (IF Head(v) # zero THEN <<Head(v)>> ELSE << >>)
         \o NonZero(Tail(v), zero)

\* M[:, j]
Column(M, j) == [i \in 1..Rows(M) |-> M[i][j]]

---------------------------------------------------------------------------
(* Basic functions of gat.ipynb *)

\* A faulty rectifier: the plain relu, 0 where z <= 0.
leaky_relu_Relu(z) ==
    [k \in 1..Len(z) |-> IF z[k] > 0 THEN z[k] * SlopeDen ELSE 0]

\* leaky_relu on a vector of integers; the result is in hundredths:
\* z where z > 0, z * 0.01 otherwise.
leaky_relu(z) ==
    [k \in 1..Len(z) |-> IF z[k] > 0 THEN z[k] * SlopeDen ELSE z[k]]

\* np.exp at -m hundredths, m >= 0, as a fixed-point number with
\* Exp(0) = ExpOne, rounded down: a whole unit multiplies by 37/100
\* (e^-1 = 0.3679), a hundredth by 99/100 (e^-0.01 = 0.9900).  Positive,
\* and strictly decreasing on the arguments the layer produces (a few
\* hundredths below a whole number of units).
RECURSIVE Exp(_)
Exp(m) == IF m = 0 THEN ExpOne
          ELSE IF m >= SlopeDen THEN (Exp(m - SlopeDen) * 37) \div 100
          ELSE (Exp(m - 1) * 99) \div 100

\* A faulty guard: no input is treated as raising.
softmaxRaises_Never(z) == Len(z) < 0

\* A faulty softmax: the maximum is subtracted only when it is positive.
softmax_ClampedMax(z) ==
    LET vector_max_value == IF Max(z) > 0 THEN Max(z) ELSE 0
        ez == [k \in 1..Len(z) |-> Exp(vector_max_value - z[k])]
        total == Sum(ez)
    IN  [k \in 1..Len(z) |-> Rat(ez[k], total)]

\* softmax(z), vector branch: np.max of an empty array raises ValueError.
softmaxRaises(z) == Len(z) = 0

softmax(z) ==
    LET vector_max_value == Max(z)
        ez == [k \in 1..Len(z) |-> Exp(vector_max_value - z[k])]
        total == Sum(ez)
    IN  [k \in 1..Len(z) |-> Rat(ez[k], total)]

\* A faulty matrix softmax: maximum and sum taken along axis 1 (the rows).
softmaxMatrix_Axis1(z) ==
    LET max_matrix == [i \in 1..Rows(z) |-> Max(z[i])]
        ez == [i \in 1..Rows(z) |-> [j \in 1..Cols(z) |->
                  Exp(max_matrix[i] - z[i][j])]]
        total == [i \in 1..Rows(z) |-> Sum(ez[i])]
    IN  [i \in 1..Rows(z) |-> [j \in 1..Cols(z) |-> Rat(ez[i][j], total[i])]]

\* softmax(z), matrix branch (len(z.shape) > 1): the maximum and the sum are
\* taken along axis 0, one per column.
softmaxMatrix(z) ==
    LET max_matrix == [j \in 1..Cols(z) |-> Max(Column(z, j))]
        ez == [i \in 1..Rows(z) |-> [j \in 1..Cols(z) |->
                  Exp(max_matrix[j] - z[i][j])]]
        total == [j \in 1..Cols(z) |-> Sum(Column(ez, j))]
    IN  [i \in 1..Rows(z) |-> [j \in 1..Cols(z) |-> Rat(ez[i][j], total[j])]]

---------------------------------------------------------------------------
(* Inputs: the random draws of the notebooks, taken from small sets *)

\* np.random.shuffle(X) on X = np.eye(n, n): the rows in a new order
\* (the rotations of the identity order).
ShuffledEye ==
    {[i \in 1..n |-> Eye(n)[((i - 1 + k) % n) + 1]] : k \in 0..(n - 1)}

\* np.random.randint(2, size=(n, n)): every 0/1 matrix.
RandomAdjacency == [1..n -> [1..n -> {0, 1}]]

\* Weight matrices, one column of three entries per input feature.
WeightColumnsA(k) ==
    CASE k % 3 = 1 -> <<2, -1, 0>>
      [] k % 3 = 2 -> <<0, -3, 1>>
      [] OTHER     -> <<-1, -1, 0>>

WeightColumnsB(k) ==
    CASE k % 3 = 1 -> <<1, 0, -1>>
      [] k % 3 = 2 -> <<-2, -1, 1>>
      [] OTHER     -> <<0, -2, -2>>

\* gat.ipynb: W of shape (emb, n)
GATWeights ==
    { [c \in 1..emb |-> [k \in 1..n |-> WeightColumnsA(k)[c]]],
      [c \in 1..emb |-> [k \in 1..n |-> WeightColumnsB(k)[c]]] }

\* gat.ipynb: att = np.random.rand(1, 2 * emb), entries >= 0
AttentionVectors ==
    { << <<1, 0, 0, 0, 1, 0>> >>,
      << <<0, 0, 1, 0, 0, 0>> >> }

---------------------------------------------------------------------------
(* gat.ipynb: the GAT layer in NumPy *)

\* A faulty concatenation: the destination embedding first.
ConcatEdges_DstFirst(z, coords) ==
    [k \in 1..Len(coords[1]) |-> z[coords[2][k]] \o z[coords[1][k]]]

\* z1[edge_coords[0]], z1[edge_coords[1]] and their concatenation (axis=1)
ConcatEdges(z, coords) ==
    [k \in 1..Len(coords[1]) |-> z[coords[1][k]] \o z[coords[2][k]]]

\* alpha0, alpha1, ...: per column of e_matr, the entries that are not 0
ColumnScores(em) == [j \in 1..Cols(em) |-> NonZero(Column(em, j), 0)]

\* A faulty normalization: the softmax taken over the rows of e_matr.
ConcatAlpha_ByRows(em) ==
    Flatten([i \in 1..Rows(em) |-> softmax(NonZero(em[i], 0))])

\* np.concatenate((alpha0, alpha1, ...)) with alphaj = softmax(column j)
ConcatAlpha(em) ==
    Flatten([j \in 1..Cols(em) |-> softmax(ColumnScores(em)[j])])

UnboundGAT ==
    /\ z1 = None /\ edge_coords = None /\ z2 = None /\ att = None
    /\ e = None
    /\ e_matr = None /\ alpha = None /\ A_scaled = None /\ ND_GAT = None
    /\ h = None /\ layer1 = None /\ layer2 = None /\ concat = None
    /\ average = None

UnboundRGCN ==
    /\ A_und = None /\ L_0 = None /\ ND_GNN = None /\ D = None
    /\ D_rec = None /\ ND_GCN = None /\ W_rels = None /\ L_0_rels = None
    /\ num_rels = None /\ W_rel1 = None /\ W_rel2 = None
    /\ A_rel1 = None /\ A_rel2 = None /\ A_rels = None /\ RGCN = None

UnboundHeads ==
    /\ head_outs = None /\ merge = None /\ merged = None

UnboundCalls ==
    /\ z_in = None /\ c_in = None /\ lr_out = None /\ a_out = None
    /\ a_shifted = None

InitGAT ==
    /\ pc = "graph"
    /\ err = "none"
    /\ X \in ShuffledEye
    /\ W \in GATWeights
    /\ A \in RandomAdjacency
    /\ UnboundGAT /\ UnboundRGCN /\ UnboundHeads /\ UnboundCalls

\* np.fill_diagonal(A, 1); A = (A + A.T); A[A > 1] = 1
GenerateGraph ==
    /\ pc = "graph"
    /\ A' = Symmetrize(FillDiagonal(A, 1))
    /\ pc' = "eq1"
    /\ UNCHANGED <<err, X, W, gatVars, rgcnVars, headVars, callVars>>

\* The layer evaluated on an adjacency matrix handed to it as it is
\* (directed, or without self-loops).
GivenGraph ==
    /\ pc = "graph"
    /\ pc' = "eq1"
    /\ UNCHANGED <<err, X, W, A, gatVars, rgcnVars, headVars, callVars>>

\* equation (1)
LinearTransformation ==
    /\ pc = "eq1"
    /\ z1' = Dot(X, Transpose(W))
    /\ pc' = "eq2"
    /\ UNCHANGED <<err, X, W, A, edge_coords, z2, att, e, e_matr, alpha,
                   A_scaled, ND_GAT, h, layer1, layer2, concat, average,
                   rgcnVars, headVars, callVars>>

\* equation (2)
EdgeScores ==
    /\ pc = "eq2"
    /\ edge_coords' = Where(A)
    /\ att' \in AttentionVectors
    /\ z2' = ConcatEdges(z1, edge_coords')
    /\ LET z2_att == Dot(z2', Transpose(att'))
       IN  e' = leaky_relu(Column(z2_att, 1))
    /\ pc' = "eq3"
    /\ err' = err
    /\ UNCHANGED <<X, W, A, z1, e_matr, alpha, A_scaled, ND_GAT, h,
                   layer1, layer2, concat, average, rgcnVars, headVars,
                   callVars>>

\* equation (3)
NormalizeScores ==
    /\ pc = "eq3"
    /\ e_matr' = Scatter(n, n, 0, edge_coords, e)
    /\ IF \E j \in 1..n : softmaxRaises(ColumnScores(e_matr')[j])
       THEN \* np.max of an empty column selection
            /\ err' = "ValueError"
            /\ pc' = "error"
            /\ UNCHANGED <<alpha, A_scaled>>
       ELSE /\ alpha' = ConcatAlpha(e_matr')
            /\ IF Len(alpha') # Len(edge_coords[1])
               THEN \* A_scaled[rows, cols] = alpha: shape mismatch
                    /\ A_scaled' = Scatter(n, n, RZero, edge_coords, << >>)
                    /\ err' = "ValueError"
                    /\ pc' = "error"
               ELSE /\ A_scaled' = Scatter(n, n, RZero, edge_coords, alpha')
                    /\ err' = err
                    /\ pc' = "eq4"
    /\ UNCHANGED <<X, W, A, z1, edge_coords, z2, att, e, ND_GAT, h,
                   layer1, layer2, concat, average, rgcnVars, headVars,
                   callVars>>

\* equation (4)
Aggregate ==
    /\ pc = "eq4"
    /\ ND_GAT' = RDot(A_scaled, z1)
    /\ pc' = "dgl"
    /\ UNCHANGED <<err, X, W, A, z1, edge_coords, z2, att, e, e_matr, alpha,
                   A_scaled, h, layer1, layer2, concat, average,
                   rgcnVars, headVars, callVars>>

---------------------------------------------------------------------------
(* gat.ipynb: the DGL reference layer, GATTestLayer *)

\* The edges delivered to node d (its mailbox), in edge order.
RECURSIVE InEdgesFrom(_, _, _)
InEdgesFrom(dst_ids, d, k) ==
    IF k > Len(dst_ids) THEN << >>
    ELSE (IF dst_ids[k] = d THEN <<k>> ELSE << >>)
         \o InEdgesFrom(dst_ids, d, k + 1)

InEdges(dst_ids, d) == InEdgesFrom(dst_ids, d, 1)

\* dgl.graph((src_ids, dst_ids)): the nodes are 0 .. the largest id used.
NumGraphNodes(g) == IF Len(g[1]) = 0 THEN 0 ELSE Max(g[1] \o g[2])

\* edge_attention: leaky_relu(attn_fc(cat(src z, dst z))), attn_fc.weight = att
edge_attention(z, g) ==
    leaky_relu(Column(Dot(ConcatEdges(z, g), Transpose(att)), 1))

\* reduce_func: softmax over the mailbox scores, weighted sum of mailbox z
reduce_func(mailbox_e, mailbox_z) ==
    LET a == softmax(mailbox_e)
    IN  [c \in 1..Len(mailbox_z[1]) |->
            RSum([i \in 1..Len(mailbox_e) |->
                     RMul(a[i], RInt(mailbox_z[i][c]))])]

\* forward: fc.weight = W; update_all leaves a node without messages at zero.
GATTestLayer_forward(g, feat) ==
    LET z  == Dot(feat, Transpose(W))
        ee == edge_attention(z, g)
    IN  [d \in 1..Rows(feat) |->
            LET ks == InEdges(g[2], d)
            IN  IF Len(ks) = 0
                THEN [c \in 1..Cols(z) |-> RZero]
                ELSE reduce_func([i \in 1..Len(ks) |-> ee[ks[i]]],
                                 [i \in 1..Len(ks) |-> z[g[1][ks[i]]]])]

\* g = dgl.graph((src_ids, dst_ids)); net.forward(torch.Tensor(X))
DGLForward ==
    /\ pc = "dgl"
    /\ IF NumGraphNodes(edge_coords) # Rows(X)
       THEN \* g.ndata['z'] = z: one row per graph node is expected
            /\ err' = "DGLError"
            /\ pc' = "error"
            /\ h' = h
       ELSE /\ h' = GATTestLayer_forward(edge_coords, X)
            /\ err' = err
            /\ pc' = "heads"
    /\ UNCHANGED <<X, W, A, z1, edge_coords, z2, att, e, e_matr, alpha,
                   A_scaled, ND_GAT, layer1, layer2, concat, average,
                   rgcnVars, headVars, callVars>>

---------------------------------------------------------------------------
(* gat.ipynb: merging the attention heads *)

\* A faulty concatenation: the heads laid out in reverse order.
ConcatAxis1_Reversed(heads) ==
    [i \in 1..Rows(heads[1]) |->
        Flatten([k \in 1..Len(heads) |-> heads[Len(heads) + 1 - k][i]])]

\* np.concatenate(heads, axis=1) and torch.cat(heads, dim=1)
ConcatAxis1(heads) ==
    [i \in 1..Rows(heads[1]) |->
        Flatten([k \in 1..Len(heads) |-> heads[k][i]])]

\* np.sum over a tuple of matrices: the sum of all their entries
SumAll(heads) == RSum(Flatten(Flatten(heads)))

\* "30 is the number of parameters: num_layers*emb*n"
NumParameters == 30

\* average = np.sum((layer1, layer2)) / 30
NumpyAverage(heads) == RMul(SumAll(heads), Rat(1, NumParameters))

\* torch.mean(torch.stack(head_outs)): the mean of all the elements
TorchMean(heads) ==
    RMul(SumAll(heads),
         Rat(1, Len(heads) * Rows(heads[1]) * Cols(heads[1])))

\* layer1 = ND_GAT; layer2 = ND_GAT; concat = ...; average = ...
MultiHeadNumpy ==
    /\ pc = "heads"
    /\ layer1' = ND_GAT
    /\ layer2' = ND_GAT
    /\ concat' = ConcatAxis1(<<layer1', layer2'>>)
    /\ average' = NumpyAverage(<<layer1', layer2'>>)
    /\ pc' = "done"
    /\ UNCHANGED <<err, X, W, A, z1, edge_coords, z2, att, e, e_matr, alpha,
                   A_scaled, ND_GAT, h, rgcnVars, headVars, callVars>>

NextGAT ==
    \/ GenerateGraph
    \/ GivenGraph
    \/ LinearTransformation
    \/ EdgeScores
    \/ NormalizeScores
    \/ Aggregate
    \/ DGLForward
    \/ MultiHeadNumpy

SpecGAT == InitGAT /\ [][NextGAT]_vars

---------------------------------------------------------------------------
(* rgcn.ipynb: inputs *)

\* W of shape (n, emb)
RGCNWeights == {Transpose(Wt) : Wt \in GATWeights}

\* Number of relation types
NumRels == 2

\* A few directed 0/1 matrices (with and without self-loops) for the
\* relation draws np.random.randint(2, size=(n, n)).
Bit(b) == IF b THEN 1 ELSE 0

SomeAdjacency ==
    { [i \in 1..n |-> [j \in 1..n |-> Bit(i # j)]],
      [i \in 1..n |-> [j \in 1..n |-> Bit(i <= j)]],
      [i \in 1..n |-> [j \in 1..n |-> Bit((i + j) % 2 = 1)]],
      [i \in 1..n |-> [j \in 1..n |-> Bit(j = (i % n) + 1)]],
      [i \in 1..n |-> [j \in 1..n |-> Bit(j = 1 \/ i = j)]],
      [i \in 1..n |-> [j \in 1..n |-> Bit((i + 2 * j) % 3 = 0)]] }

\* np.random.randint(3, size=(n, n)): a few matrices over {0, 1, 2}
SomeMatrix012 ==
    {[i \in 1..n |-> [j \in 1..n |-> (p[1] * i + p[2] * j + p[3]) % 3]] :
        p \in {<<1, 1, 1>>, <<2, 1, 0>>, <<1, 0, 0>>}}

---------------------------------------------------------------------------
(* rgcn.ipynb: GNN and GCN layers *)

\* A faulty degree: the sum along axis 0 (in-degree) instead of axis 1.
SumAxis1_Axis0(M) == [i \in 1..Rows(M) |-> Sum(Column(M, i))]

\* M.sum(axis=1)
SumAxis1(M) == [i \in 1..Rows(M) |-> Sum(M[i])]

\* np.reciprocal(v.astype(np.float32)): 1/0 is inf (a warning, no exception)
Reciprocal(v) == [i \in 1..Len(v) |-> Rat(1, v[i])]

\* np.diag(v)
Diag(v) == [i \in 1..Len(v) |-> [j \in 1..Len(v) |-> IF i = j THEN v[i] ELSE RZero]]

InitRGCNWith(adjacencies) ==
    /\ pc = "graph"
    /\ err = "none"
    /\ X \in ShuffledEye
    /\ W \in RGCNWeights
    /\ A \in adjacencies
    /\ UnboundGAT /\ UnboundRGCN /\ UnboundHeads /\ UnboundCalls

\* np.fill_diagonal(A, 1); A_und = (A + A.T); A_und[A_und > 1] = 1
BuildUndirected ==
    /\ pc = "graph"
    /\ A' = FillDiagonal(A, 1)
    /\ A_und' = Symmetrize(A')
    /\ pc' = "gnn"
    /\ UNCHANGED <<err, X, W, gatVars, L_0, ND_GNN, D, D_rec, ND_GCN,
                   num_rels, W_rel1, W_rel2, W_rels, L_0_rels, A_rel1, A_rel2,
                   A_rels, RGCN,
                   headVars, callVars>>

\* The layers evaluated on an adjacency matrix handed to them as it is
\* (directed, or without self-loops).
GivenAdjacency ==
    /\ pc = "graph"
    /\ A_und' = A
    /\ pc' = "gnn"
    /\ UNCHANGED <<err, X, W, A, gatVars, L_0, ND_GNN, D, D_rec, ND_GCN,
                   num_rels, W_rel1, W_rel2, W_rels, L_0_rels, A_rel1, A_rel2,
                   A_rels, RGCN,
                   headVars, callVars>>

\* L_0 = X.dot(W); ND_GNN = A_und.dot(L_0)
NeighborhoodDiffusion ==
    /\ pc = "gnn"
    /\ L_0' = Dot(X, W)
    /\ ND_GNN' = Dot(A_und, L_0')
    /\ pc' = "gcn"
    /\ UNCHANGED <<err, X, W, A, gatVars, A_und, D, D_rec, ND_GCN,
                   num_rels, W_rel1, W_rel2, W_rels, L_0_rels, A_rel1, A_rel2,
                   A_rels, RGCN,
                   headVars, callVars>>

\* D = A_und.sum(axis=1); D_rec = np.diag(np.reciprocal(D));
\* ND_GCN = D_rec.dot(ND_GNN)
IsotropicAverage ==
    /\ pc = "gcn"
    /\ D' = SumAxis1(A_und)
    /\ D_rec' = Diag(Reciprocal(D'))
    /\ ND_GCN' = RDot(D_rec', ND_GNN)
    /\ pc' = "rgcn"
    /\ UNCHANGED <<err, X, W, A, gatVars, A_und, L_0, ND_GNN,
                   num_rels, W_rel1, W_rel2, W_rels, L_0_rels, A_rel1, A_rel2,
                   A_rels, RGCN,
                   headVars, callVars>>

\* Every 0/1 adjacency, under the shuffle that brings the last row of the
\* identity first.
InitGCN == InitRGCNWith(RandomAdjacency) /\ X[1][n] = 1

NextGCN ==
    \/ BuildUndirected
    \/ GivenAdjacency
    \/ NeighborhoodDiffusion
    \/ IsotropicAverage

SpecGCN == InitGCN /\ [][NextGCN]_vars

---------------------------------------------------------------------------
(* rgcn.ipynb: R-GCN layer *)

\* np.concatenate(ms) (axis 0): the rows of the matrices, one after another
Concatenate(ms) == Flatten(ms)

\* A faulty reshape: the flat array read with the strides of the last two
\* axes exchanged.
Reshape_SwappedStrides(M, r, a, b) ==
    LET flat == Flatten(M)
    IN  [k \in 1..r |-> [i \in 1..a |-> [j \in 1..b |->
            flat[(k - 1) * a + (i - 1) + (j - 1) * a + 1]]]]

\* np.reshape(M, (r, a, b)): the entries in row-major order, regrouped
Reshape(M, r, a, b) ==
    LET flat == Flatten(M)
    IN  [k \in 1..r |-> [i \in 1..a |-> [j \in 1..b |->
            flat[((k - 1) * a + (i - 1)) * b + j]]]]

\* A faulty broadcast: M times the first slice of T, for every slice.
MatMulBroadcast_FirstSlice(M, T) == [k \in 1..Len(T) |-> Dot(M, T[1])]

\* np.matmul(M, T) for a matrix M and a stack T: M times every slice of T
MatMulBroadcast(M, T) == [k \in 1..Len(T) |-> Dot(M, T[k])]

\* A faulty pairing: slice k of the first stack times the slice of the other
\* end of the second stack.
MatMulBatch_Crossed(T1, T2) ==
    [k \in 1..Len(T1) |-> Dot(T1[k], T2[Len(T2) + 1 - k])]

\* np.matmul(T1, T2) for two stacks: slice k times slice k
MatMulBatch(T1, T2) == [k \in 1..Len(T1) |-> Dot(T1[k], T2[k])]

\* np.sum(T, axis=0)
SumAxis0(T) ==
    [i \in 1..Rows(T[1]) |-> [c \in 1..Cols(T[1]) |->
        Sum([k \in 1..Len(T) |-> T[k][i][c]])]]

\* A_rel2[A_rel2 > 1] = 0
ZeroAboveOne(M) ==
    [i \in 1..Rows(M) |-> [j \in 1..Cols(M) |-> IF M[i][j] > 1 THEN 0 ELSE M[i][j]]]

\* The pairs (W_rel1, W_rel2) drawn for the two relations
RelationWeights == RGCNWeights \X RGCNWeights

\* The cell with num_rels relations: relation 1 alone, or both.
RGCNLayer ==
    /\ pc = "rgcn"
    /\ num_rels' \in {1, NumRels}
    /\ \E Ws \in RelationWeights, rel1 \in SomeAdjacency, rel2 \in SomeMatrix012 :
        /\ W_rel1' = Ws[1]
        /\ W_rel2' = IF num_rels' = 1 THEN W_rel2 ELSE Ws[2]
        /\ A_rel1' = rel1
        /\ A_rel2' = IF num_rels' = 1 THEN A_rel2
                     ELSE ZeroAboveOne(FillDiagonal(rel2, 0))
    /\ W_rels' = Reshape(Concatenate(IF num_rels' = 1 THEN <<W_rel1'>>
                                     ELSE <<W_rel1', W_rel2'>>),
                         num_rels', n, emb)
    /\ L_0_rels' = MatMulBroadcast(X, W_rels')
    \* "Not consider the self loop": applied to A, not to A_rel1
    /\ A' = FillDiagonal(A, 0)
    /\ A_rels' = Reshape(Concatenate(IF num_rels' = 1 THEN <<A_rel1'>>
                                     ELSE <<A_rel1', A_rel2'>>),
                         num_rels', n, n)
    /\ ND_GCN' = MatMulBatch(A_rels', L_0_rels')
    /\ RGCN' = SumAxis0(ND_GCN')
    /\ pc' = "done"
    /\ UNCHANGED <<err, X, W, gatVars, A_und, L_0, ND_GNN, D, D_rec, headVars,
                   callVars>>

InitRGCN == InitRGCNWith(SomeAdjacency)

NextRGCN ==
    \/ BuildUndirected
    \/ GivenAdjacency
    \/ NeighborhoodDiffusion
    \/ IsotropicAverage
    \/ RGCNLayer

SpecRGCN == InitRGCN /\ [][NextRGCN]_vars

---------------------------------------------------------------------------
(* gat.ipynb: MultiHeadGATTestLayer *)

\* Largest number of attention heads (the notebook builds num_heads = 2).
NumHeads == 2

\* Outputs of an attention head: n x emb matrices of quotients.
HeadOutput(v) ==
    [i \in 1..n |-> [c \in 1..emb |->
        Rat(((3 * v + 5 * i + 7 * c) % 11) - 5, 1 + (v % 3))]]

HeadOutputs == {HeadOutput(v) : v \in 0..7}

\* Either the layer is about to merge the outputs of its heads,
\* head_outs = [attn_head(h) for attn_head in self.heads], with merge given
\* to the constructor, or the NumPy cell is about to merge ND_GAT with itself.
InitMerge ==
    /\ err = "none"
    /\ X = None /\ W = None /\ A = None
    /\ UnboundRGCN
    /\ z1 = None /\ edge_coords = None /\ z2 = None /\ att = None
    /\ e = None
    /\ e_matr = None /\ alpha = None /\ A_scaled = None
    /\ h = None /\ layer1 = None /\ layer2 = None /\ concat = None
    /\ average = None
    /\ merged = None
    /\ UnboundCalls
    /\ \/ /\ pc = "forward"
          /\ ND_GAT = None
          /\ head_outs \in UNION {[1..K -> HeadOutputs] : K \in 1..NumHeads}
          /\ merge \in {"cat", "mean"}
       \/ /\ pc = "heads"
          /\ ND_GAT \in HeadOutputs
          /\ head_outs = None /\ merge = None

\* MultiHeadGATTestLayer.forward
MultiHeadForward ==
    /\ pc = "forward"
    /\ merged' = IF merge = "cat" THEN ConcatAxis1(head_outs)
                 ELSE TorchMean(head_outs)
    /\ pc' = "done"
    /\ UNCHANGED <<err, X, W, A, gatVars, rgcnVars, head_outs, merge,
                   callVars>>

NextMerge ==
    \/ MultiHeadForward
    \/ MultiHeadNumpy

SpecMerge == InitMerge /\ [][NextMerge]_vars

---------------------------------------------------------------------------
(* gat.ipynb: the basic functions called on a vector *)

\* Largest length of the vector handed to leaky_relu and softmax.
MaxLen == 3

\* Entries of the vector, in hundredths: leaky_relu values of small scores.
ScoreValues == {-3, -1, 0, SlopeDen, 2 * SlopeDen}

\* Constants added to every entry, in hundredths (1000 * SlopeDen is 1000.0).
ShiftValues == {-2 * SlopeDen, -1, 0, 1, SlopeDen, 1000 * SlopeDen}

\* z + c
AddScalar(z, c) == [k \in 1..Len(z) |-> z[k] + c]

InitCalls ==
    /\ pc = "leaky_relu"
    /\ err = "none"
    /\ X = None /\ W = None /\ A = None
    /\ UnboundGAT /\ UnboundRGCN /\ UnboundHeads
    /\ z_in \in UNION {[1..l -> ScoreValues] : l \in 0..MaxLen}
    /\ c_in \in ShiftValues
    /\ lr_out = None /\ a_out = None /\ a_shifted = None

\* leaky_relu(z)
CallLeakyRelu ==
    /\ pc = "leaky_relu"
    /\ lr_out' = leaky_relu(z_in)
    /\ pc' = "softmax"
    /\ UNCHANGED <<err, X, W, A, gatVars, rgcnVars, headVars, z_in, c_in,
                   a_out, a_shifted>>

\* softmax(z)
CallSoftmax ==
    /\ pc = "softmax"
    /\ IF softmaxRaises(z_in)
       THEN /\ err' = "ValueError"
            /\ pc' = "error"
            /\ a_out' = a_out
       ELSE /\ a_out' = softmax(z_in)
            /\ pc' = "shifted"
            /\ err' = err
    /\ UNCHANGED <<X, W, A, gatVars, rgcnVars, headVars, z_in, c_in, lr_out,
                   a_shifted>>

\* softmax(z + c)
CallSoftmaxShifted ==
    /\ pc = "shifted"
    /\ a_shifted' = softmax(AddScalar(z_in, c_in))
    /\ pc' = "done"
    /\ UNCHANGED <<err, X, W, A, gatVars, rgcnVars, headVars, z_in, c_in,
                   lr_out, a_out>>

NextCalls ==
    \/ CallLeakyRelu
    \/ CallSoftmax
    \/ CallSoftmaxShifted

SpecCalls == InitCalls /\ [][NextCalls]_vars

\* Entries of the matrix, in hundredths.
MatrixValues == {-3, SlopeDen}

\* softmax called on its own: on a vector (pc = "softmax"), or on a matrix
\* of at least one row and one column (pc = "softmax_matrix"); the position
\* records which branch of len(z.shape) > 1 the argument takes.
InitSoftmax ==
    /\ err = "none"
    /\ X = None /\ W = None /\ A = None
    /\ UnboundGAT /\ UnboundRGCN /\ UnboundHeads
    /\ c_in = 0
    /\ lr_out = None /\ a_out = None /\ a_shifted = None
    /\ \/ /\ pc = "softmax"
          /\ z_in \in UNION {[1..l -> ScoreValues] : l \in 0..MaxLen}
       \/ /\ pc = "softmax_matrix"
          /\ z_in \in UNION {[1..r -> [1..c -> MatrixValues]] :
                                r \in 1..MaxLen, c \in 1..MaxLen}

\* softmax(z) on a matrix
CallSoftmaxMatrix ==
    /\ pc = "softmax_matrix"
    /\ a_out' = softmaxMatrix(z_in)
    /\ pc' = "returned"
    /\ UNCHANGED <<err, X, W, A, gatVars, rgcnVars, headVars, z_in, c_in,
                   lr_out, a_shifted>>

NextSoftmax ==
    \/ CallSoftmax
    \/ CallSoftmaxMatrix

SpecSoftmax == InitSoftmax /\ [][NextSoftmax]_vars

---------------------------------------------------------------------------
(* Properties of the GAT layer *)

\* The sources with an edge into d: the rows s with A[s][d] = 1, ascending.
RECURSIVE SourcesFrom(_, _, _)
SourcesFrom(M, d, s) ==
    IF s > Rows(M) THEN << >>
    ELSE (IF M[s][d] = 1 THEN <<s>> ELSE << >>) \o SourcesFrom(M, d, s + 1)

Sources(M, d) == SourcesFrom(M, d, 1)

\* The score of edge s -> d: the entry of e at the edge's place in the list.
EdgeScore(s, d) ==
    e[CHOOSE k \in 1..Len(e) : edge_coords[1][k] = s /\ edge_coords[2][k] = d]

\* The softmax weight of edge s -> d among the edges into d.
IncomingWeight(s, d) ==
    LET srcs == Sources(A, d)
        m == Max([i \in 1..Len(srcs) |-> EdgeScore(srcs[i], d)])
    IN  Rat(Exp(m - EdgeScore(s, d)),
            Sum([i \in 1..Len(srcs) |-> Exp(m - EdgeScore(srcs[i], d))]))

\* Sum over the edges s -> d of IncomingWeight(s, d) * z1[s]
AttentionSum(d) ==
    LET srcs == Sources(A, d)
    IN  [c \in 1..emb |->
            RSum([i \in 1..Len(srcs) |->
                     RMul(IncomingWeight(srcs[i], d), RInt(z1[srcs[i]][c]))])]

ZeroRow == [c \in 1..emb |-> RZero]

IsSymmetric(M) == \A i, j \in 1..Rows(M) : M[i][j] = M[j][i]

\* C1: once the normalized weights are stored, for every destination d with
\* an incoming edge the weights stored at the edges s -> d, A_scaled[s][d],
\* sum to 1.
C1_StoredWeightsSumToOne ==
    (A_scaled # None /\ err = "none") =>
        \A d \in 1..n :
            LET srcs == Sources(A, d)
            IN  Len(srcs) > 0 =>
                    RSum([i \in 1..Len(srcs) |-> A_scaled[srcs[i]][d]]) = ROne

\* C2: row d of the layer output is the sum over the edges s -> d of the
\* softmax weight of s -> d among the edges into d times projected[s].
C2_OutputIsAttentionSum ==
    ND_GAT # None => \A d \in 1..n : ND_GAT[d] = AttentionSum(d)

\* C3: a graph with a node without incoming edges is evaluated without an
\* error, and that node's output row is zero, the others as usual.
C3_IsolatedNodeGivesZeroRow ==
    (e_matr # None /\ \E d \in 1..n : Len(Sources(A, d)) = 0) =>
        /\ err = "none"
        /\ ND_GAT # None =>
               \A d \in 1..n :
                   ND_GAT[d] = IF Len(Sources(A, d)) = 0 THEN ZeroRow
                               ELSE AttentionSum(d)

\* C10: the NumPy layer and the DGL reference layer return the same matrix.
C10_NumpyEqualsDGL ==
    h # None => ND_GAT = h

-----------------------------------------------------------------------------
(* Properties of the GNN and GCN layers *)

\* The neighbours of i: the columns j with M[i][j] = 1, ascending.
RECURSIVE NeighboursFrom(_, _, _)
NeighboursFrom(M, i, j) ==
    IF j > Cols(M) THEN << >>
    ELSE (IF M[i][j] = 1 THEN <<j>> ELSE << >>) \o NeighboursFrom(M, i, j + 1)

Neighbours(M, i) == NeighboursFrom(M, i, 1)

HasZeroRow(M) == \E i \in 1..Rows(M) : \A j \in 1..Cols(M) : M[i][j] = 0

AllFinite(M) == \A i \in 1..Rows(M) : \A c \in 1..Cols(M) : IsFinite(M[i][c])

\* C4: the degree-normalized aggregation on an adjacency with an all-zero row
\* ends in a ZeroDegreeError without an output matrix, and an output matrix
\* never holds an infinite or undefined entry.
C4_ZeroDegreeIsAnError ==
    /\ (D # None /\ HasZeroRow(A_und)) =>
           (err = "ZeroDegreeError" /\ ND_GCN = None)
    /\ (D # None /\ ND_GCN # None) => AllFinite(ND_GCN)

\* C5: when every row of the adjacency holds a 1, the degree of node i is the
\* number of its neighbours and output[i][c] is the sum of projected[j][c]
\* over the neighbours j of i divided by that number.
C5_OutputIsNeighbourMean ==
    (D # None /\ ~HasZeroRow(A_und)) =>
        \A i \in 1..n :
            LET nb == Neighbours(A_und, i)
            IN  /\ D[i] = Len(nb)
                /\ \A c \in 1..emb :
                       ND_GCN[i][c] =
                           Rat(Sum([k \in 1..Len(nb) |-> L_0[nb[k]][c]]),
                               Len(nb))

\* A directed adjacency without a zero row has been averaged, and some node
\* with several neighbours has a mean that is not an integer.
C5_MeanOverDirectedGraph ==
    /\ D # None /\ pc = "rgcn"
    /\ ~HasZeroRow(A_und)
    /\ ~IsSymmetric(A_und)
    /\ \E i \in 1..n : \E c \in 1..emb : D[i] > 1 /\ ND_GCN[i][c][2] > 1

-----------------------------------------------------------------------------
(* Properties of the R-GCN layer *)

\* The adjacency and the weights of relation r as the cell drew them.
RelationAdjacency(r) == IF r = 1 THEN A_rel1 ELSE A_rel2
RelationWeight(r) == IF r = 1 THEN W_rel1 ELSE W_rel2

\* Sum over the neighbours j of i in relation r of (X . W_r)[j][c]
RelationTerm(r, i, c) ==
    LET nb == Neighbours(RelationAdjacency(r), i)
        projected == Dot(X, RelationWeight(r))
    IN  Sum([k \in 1..Len(nb) |-> projected[nb[k]][c]])

\* C6: output[i][c] is the sum over the relations r of the sum over the
\* neighbours j of i in relation r of projected_r[j][c], with projected_r the
\* features times the weights of relation r.
C6_OutputIsSumOverRelations ==
    RGCN # None =>
        \A i \in 1..n : \A c \in 1..emb :
            RGCN[i][c] = Sum([r \in 1..num_rels |-> RelationTerm(r, i, c)])

\* Two relations with different weights and different adjacencies have been
\* combined, and some node has neighbours in both.
C6_TwoRelationsCombined ==
    /\ RGCN # None /\ num_rels = NumRels
    /\ W_rel1 # W_rel2
    /\ A_rel1 # A_rel2
    /\ \E i \in 1..n : /\ Len(Neighbours(A_rel1, i)) > 0
                       /\ Len(Neighbours(A_rel2, i)) > 0
                       /\ \E c \in 1..emb : RelationTerm(1, i, c) # 0
                                            /\ RelationTerm(2, i, c) # 0

-----------------------------------------------------------------------------
(* Properties of the multi-head merge *)

\* The elementwise mean of the heads: entry (i, c) is the mean of the heads'
\* entries (i, c).
ElementwiseMean(heads) ==
    [i \in 1..n |-> [c \in 1..emb |->
        RMul(RSum([k \in 1..Len(heads) |-> heads[k][i][c]]),
             Rat(1, Len(heads)))]]

IsMatrix(M, r, c) ==
    /\ DOMAIN M = 1..r
    /\ \A i \in 1..r : DOMAIN M[i] = 1..c

\* C8: the 'average' merge of K heads is an N x E matrix, the elementwise
\* mean of the heads; this for the layer's merge and for the NumPy cell's.
C8_AverageIsElementwiseMean ==
    /\ (merged # None /\ merge = "mean") =>
           /\ IsMatrix(merged, n, emb)
           /\ merged = ElementwiseMean(head_outs)
    /\ average # None =>
           /\ IsMatrix(average, n, emb)
           /\ average = ElementwiseMean(<<layer1, layer2>>)

\* C9: the 'concatenate' merge of K heads is an N x (K . E) matrix whose row
\* i holds, in columns (k-1).E+1 .. k.E, row i of head k; this for the
\* layer's merge and for the NumPy cell's merge of its two layers.
C9_ConcatenateLaysHeadsSideBySide ==
    /\ (merged # None /\ merge = "cat") =>
           LET K == Len(head_outs)
           IN  /\ IsMatrix(merged, n, K * emb)
               /\ \A i \in 1..n : \A k \in 1..K : \A c \in 1..emb :
                      merged[i][(k - 1) * emb + c] = head_outs[k][i][c]
    /\ concat # None =>
           /\ IsMatrix(concat, n, 2 * emb)
           /\ \A i \in 1..n : \A c \in 1..emb :
                  /\ concat[i][c] = layer1[i][c]
                  /\ concat[i][emb + c] = layer2[i][c]

\* Several heads with different outputs have been concatenated.
C9_DifferentHeadsConcatenated ==
    /\ merged # None /\ merge = "cat"
    /\ Len(head_outs) = NumHeads
    /\ head_outs[1] # head_outs[NumHeads]

-----------------------------------------------------------------------------
(* Properties of the basic functions *)

\* C11: for every non-empty vector z and every constant c, softmax(z + c)
\* is softmax(z): the exponent of entry k is z[k] - max(z), at most 0 and 0
\* at a maximal entry, and is the same for z + c.
C11_SoftmaxShiftInvariant ==
    (a_shifted # None /\ Len(z_in) > 0) =>
        /\ a_shifted = a_out
        /\ LET zc == AddScalar(z_in, c_in)
           IN  \A k \in 1..Len(z_in) :
                   /\ z_in[k] - Max(z_in) <= 0
                   /\ zc[k] - Max(zc) = z_in[k] - Max(z_in)
                   /\ z_in[k] = Max(z_in) => a_out[k] = Rat(ExpOne, Sum(
                         [i \in 1..Len(z_in) |-> Exp(Max(z_in) - z_in[i])]))

\* A vector with different entries, all at most 0, has been normalized
\* before and after a shift by a non-zero constant.
C11_ShiftedUnequalEntries ==
    /\ a_shifted # None
    /\ Len(z_in) > 1
    /\ c_in # 0
    /\ \A k \in 1..Len(z_in) : z_in[k] <= 0
    /\ \E k \in 1..Len(z_in) : z_in[k] # z_in[1]
    /\ \E k \in 1..Len(z_in) : a_out[k] # a_out[1]

\* C12: softmax called on the empty vector ends in an error (the ValueError
\* of np.max on an empty array) and returns nothing: no result, empty or
\* partial, is bound and no later call runs.
C12_SoftmaxOfEmptyRaises ==
    (pc \in {"shifted", "done", "error"} /\ Len(z_in) = 0) =>
        /\ err = "ValueError"
        /\ pc = "error"
        /\ a_out = None
        /\ a_shifted = None

\* softmax has been called on the empty vector and the call has ended.
C12_EmptyVectorCalled ==
    /\ Len(z_in) = 0
    /\ pc = "error"
    /\ err = "ValueError"
    /\ a_out = None

-----------------------------------------------------------------------------
(* Frame of the forward evaluation *)

\* The cells that evaluate a layer (the cell that draws the graph is not one).
ForwardCells == {"eq1", "eq2", "eq3", "eq4", "dgl", "heads", "forward",
                 "gnn", "gcn", "rgcn"}

\* A step taken from a forward cell leaves the arrays supplied before it.
ForwardStepKeepsInputs ==
    pc \in ForwardCells =>
        /\ X' = X
        /\ W' = W
        /\ A' = A
        /\ att # None => att' = att
        /\ A_und # None => A_und' = A_und

\* C13: no step of a forward evaluation changes an array supplied before it:
\* X, the weights, the attention vector and every adjacency built before the
\* step, the base adjacency A included, are the same after the step.
C13_ForwardStepsKeepInputs == [][ForwardStepKeepsInputs]_vars

-----------------------------------------------------------------------------
(* Properties of the uniform aggregation *)

\* C14: the uniform aggregation gives, for every node i and column c, the sum
\* of projected[j][c] over the j with adjacency[i][j] = 1 (i itself only
\* when its self-loop entry is 1); a node with an all-zero row gets zeros.
C14_UniformAggregationSumsNeighbours ==
    ND_GNN # None =>
        \A i \in 1..n :
            LET nb == Neighbours(A_und, i)
            IN  /\ \A c \in 1..emb :
                       ND_GNN[i][c] = Sum([k \in 1..Len(nb) |-> L_0[nb[k]][c]])
                /\ Len(nb) = 0 => ND_GNN[i] = [c \in 1..emb |-> 0]

\* A directed adjacency with an all-zero row, a node without self-loop and a
\* node with several neighbours has been aggregated.
C14_AggregatedWithZeroRow ==
    /\ ND_GNN # None
    /\ HasZeroRow(A_und)
    /\ ~IsSymmetric(A_und)
    /\ \E i \in 1..n : A_und[i][i] = 0 /\ Len(Neighbours(A_und, i)) > 1
                       /\ \E c \in 1..emb : ND_GNN[i][c] # 0

-----------------------------------------------------------------------------
(* Properties of leaky_relu *)

Sign(x) == IF x > 0 THEN 1 ELSE IF x < 0 THEN -1 ELSE 0

\* C15: leaky_relu is elementwise and total: entry k of the result is x for
\* x = z[k] > 0 and x * 0.01 otherwise (in hundredths: 100 x and x), so 0
\* gives 0 and every sign is kept; the result has the shape of z; the call
\* never ends in an error.
C15_LeakyReluElementwiseTotal ==
    pc \in {"softmax", "shifted", "done", "error"} =>
        /\ Len(lr_out) = Len(z_in)
        /\ \A k \in 1..Len(z_in) :
               /\ z_in[k] > 0 => lr_out[k] = SlopeDen * z_in[k]
               /\ z_in[k] <= 0 => SlopeDen * lr_out[k] = SlopeDen * z_in[k]
               /\ z_in[k] = 0 => lr_out[k] = 0
               /\ Sign(lr_out[k]) = Sign(z_in[k])
        /\ pc = "softmax" => err = "none"

\* leaky_relu has returned for a vector with a positive, a zero and a
\* negative entry.
C15_MixedSignsRectified ==
    /\ pc = "softmax"
    /\ Len(lr_out) = MaxLen
    /\ \E k \in 1..Len(z_in) : z_in[k] > 0
    /\ \E k \in 1..Len(z_in) : z_in[k] = 0
    /\ \E k \in 1..Len(z_in) : z_in[k] < 0 /\ lr_out[k] < 0

-----------------------------------------------------------------------------
(* Properties of the attention normalization *)

EveryNodeHasIncomingEdge == \A d \in 1..n : Len(Sources(A, d)) > 0

\* C16: the scores normalized for destination d are the scores of the edges
\* into d, an edge whose score is exactly 0 included: as many weights as
\* edges are produced, they are written back one per edge without error, and
\* every edge gets a positive weight.
C16_ZeroScoreEdgesAreNormalized ==
    (e_matr # None /\ EveryNodeHasIncomingEdge) =>
        /\ err = "none"
        /\ Len(alpha) = Len(e)
        /\ \A s \in 1..n : \A d \in 1..n :
               A[s][d] = 1 => A_scaled[s][d][1] > 0

\* Undirected graphs: the symmetric 0/1 matrices, which the generation cell
\* turns into (or, handed over as they are, already are) undirected
\* adjacencies.
SymmetricAdjacency == {M \in RandomAdjacency : IsSymmetric(M)}

InitGATUndirected ==
    /\ pc = "graph"
    /\ err = "none"
    /\ X \in ShuffledEye
    /\ W \in GATWeights
    /\ A \in SymmetricAdjacency
    /\ UnboundGAT /\ UnboundRGCN /\ UnboundHeads /\ UnboundCalls

\* The cells of the layer and of its DGL test, without the multi-head cell.
NextGATLayer ==
    \/ GenerateGraph
    \/ GivenGraph
    \/ LinearTransformation
    \/ EdgeScores
    \/ NormalizeScores
    \/ Aggregate
    \/ DGLForward

SpecGATUndirected == InitGATUndirected /\ [][NextGATLayer]_vars

AllScoresNonZero == \A k \in 1..Len(e) : e[k] # 0

-----------------------------------------------------------------------------
(* Properties of the edge list *)

\* The cells of equations (1) and (2) on any 0/1 adjacency.
NextEdgeList ==
    \/ GenerateGraph
    \/ GivenGraph
    \/ LinearTransformation
    \/ EdgeScores

\* Every 0/1 adjacency, under one shuffle and one draw of the weights.
InitEdgeList ==
    /\ InitGAT
    /\ X[1][n] = 1
    /\ W[1][1] = WeightColumnsA(1)[1]

SpecEdgeList == InitEdgeList /\ [][NextEdgeList]_vars

\* C18: the edge list holds every entry of A equal to 1 exactly once and
\* nothing else, by ascending source (row) and then ascending destination
\* (column); the concatenated edge matrix has one row per edge, and its row
\* k is the source's projected row followed by the destination's.
C18_EdgeListIsRowMajor ==
    pc = "eq3" =>
        LET src == edge_coords[1]
            dst == edge_coords[2]
        IN  /\ Len(src) = Len(dst)
            /\ Len(src) = Sum(Flatten(A))
            /\ \A k \in 1..Len(src) : A[src[k]][dst[k]] = 1
            /\ \A i \in 1..n : \A j \in 1..n :
                   A[i][j] = 1 => \E k \in 1..Len(src) : src[k] = i /\ dst[k] = j
            /\ \A k \in 1..(Len(src) - 1) :
                   \/ src[k] < src[k + 1]
                   \/ src[k] = src[k + 1] /\ dst[k] < dst[k + 1]
            /\ Len(z2) = Len(src)
            /\ \A k \in 1..Len(z2) :
                   /\ Len(z2[k]) = 2 * emb
                   /\ \A c \in 1..emb : /\ z2[k][c] = z1[src[k]][c]
                                        /\ z2[k][emb + c] = z1[dst[k]][c]

\* The edge list of a directed adjacency has been built: an edge without its
\* reverse, whose ends have different projected rows, is in it.
C18_DirectedEdgeListed ==
    /\ pc = "eq3"
    /\ ~IsSymmetric(A)
    /\ \E k \in 1..Len(z2) :
           /\ A[edge_coords[2][k]][edge_coords[1][k]] = 0
           /\ z1[edge_coords[1][k]] # z1[edge_coords[2][k]]
    /\ \E i \in 1..n : Len(Neighbours(A, i)) = 0

---------------------------------------------------------------------------
(* Properties of the relation adjacencies and of the symmetrization *)

\* C19: once the multi-relational layer has aggregated, every relation's
\* slice of the adjacency tensor has only entries 0 and 1 and an all-zero
\* diagonal (no relation carries a self-loop).
C19_RelationSlicesHaveNoSelfLoops ==
    RGCN # None =>
        /\ Len(A_rels) = num_rels
        /\ \A r \in 1..Len(A_rels) : \A i \in 1..n :
               /\ A_rels[r][i][i] = 0
               /\ \A j \in 1..n : A_rels[r][i][j] \in {0, 1}

\* S has only entries 0 and 1, and S[i][j] = 1 exactly when M has an edge
\* between i and j in either direction.
IsSymmetricClosure(M, S) ==
    /\ Rows(S) = Rows(M)
    /\ \A i \in 1..Rows(M) :
           /\ Len(S[i]) = Cols(M)
           /\ \A j \in 1..Cols(M) :
                  /\ S[i][j] \in {0, 1}
                  /\ S[i][j] = 1 <=> (M[i][j] = 1 \/ M[j][i] = 1)

\* C20: the symmetrization of any 0/1 matrix M has entries 0 and 1, with a 1
\* exactly where M has a 1 at (i, j) or at (j, i); it is symmetric, and
\* symmetrizing it again changes nothing.  The undirected adjacency built
\* from A is the symmetrization of A, while the relation adjacencies enter
\* the aggregation as they were constructed, not symmetrized.
C20_SymmetrizeIsSymmetricClosure ==
    /\ pc = "graph" =>
           \A M \in RandomAdjacency :
               LET S == Symmetrize(M)
               IN  /\ IsSymmetricClosure(M, S)
                   /\ IsSymmetric(S)
                   /\ Symmetrize(S) = S
    /\ (pc = "gnn" /\ A_und # A) =>
           /\ IsSymmetricClosure(A, A_und)
           /\ IsSymmetric(A_und)
           /\ Symmetrize(A_und) = A_und
    /\ RGCN # None =>
           /\ A_rels[1] = A_rel1
           /\ num_rels = NumRels => A_rels[2] = A_rel2

\* A directed adjacency has been made undirected, and the layer has
\* aggregated over two relation adjacencies that are both still directed.
C20_UndirectedBaseDirectedRelations ==
    /\ RGCN # None
    /\ num_rels = NumRels
    /\ A_und # A
    /\ IsSymmetric(A_und)
    /\ ~IsSymmetric(A_rels[1])
    /\ ~IsSymmetric(A_rels[2])

---------------------------------------------------------------------------
(* Properties of softmax, of the relation projection and of the degrees *)

\* q is a finite rational greater than 0.
IsPositive(q) == q[1] > 0 /\ q[2] > 0

\* C21: softmax of a vector with exactly one element is exactly 1 whatever
\* the element; every softmax output has the shape of its input, every
\* entry is strictly positive, and the entries of a vector, or of each
\* column of a matrix, sum to 1.
C21_SoftmaxIsDistribution ==
    /\ pc = "shifted" =>
           /\ Len(a_out) = Len(z_in)
           /\ \A k \in 1..Len(a_out) : IsPositive(a_out[k])
           /\ RSum(a_out) = ROne
           /\ Len(z_in) = 1 => a_out = <<ROne>>
    /\ pc = "returned" =>
           /\ Rows(a_out) = Rows(z_in)
           /\ \A i \in 1..Rows(a_out) :
                  /\ Len(a_out[i]) = Cols(z_in)
                  /\ \A j \in 1..Cols(z_in) : IsPositive(a_out[i][j])
           /\ \A j \in 1..Cols(z_in) : RSum(Column(a_out, j)) = ROne
           /\ Rows(z_in) = 1 => \A j \in 1..Cols(z_in) : a_out[1][j] = ROne

\* softmax has returned on a matrix of one row whose entries differ in sign:
\* every column is a single element, negative or positive, normalized to 1.
C21_SingleElementColumns ==
    /\ pc = "returned"
    /\ Rows(z_in) = 1
    /\ \E j, k \in 1..Cols(z_in) : z_in[1][j] < 0 /\ z_in[1][k] > 0
    /\ \A j \in 1..Cols(z_in) : a_out[1][j] = ROne

\* M has only entries 0 and 1, with exactly one 1 in every row and in every
\* column.
IsPermutationMatrix(M) ==
    /\ \A i \in 1..Rows(M) : \A k \in 1..Cols(M) : M[i][k] \in {0, 1}
    /\ \A i \in 1..Rows(M) : Cardinality({k \in 1..Cols(M) : M[i][k] = 1}) = 1
    /\ \A k \in 1..Cols(M) : Cardinality({i \in 1..Rows(M) : M[i][k] = 1}) = 1

\* C22: the projection for num_rels relations is a stack of num_rels
\* matrices of n rows and emb columns, matrix r being the shared features X
\* times the weights of relation r; with X a permutation matrix, row i of
\* every projection is the weight row at the position of the 1 in X[i], and
\* every weight row is taken by exactly one node.
C22_ProjectionPerRelation ==
    RGCN # None =>
        /\ Len(L_0_rels) = num_rels
        /\ \A r \in 1..num_rels :
               /\ Rows(L_0_rels[r]) = n
               /\ \A i \in 1..n : Len(L_0_rels[r][i]) = emb
               /\ L_0_rels[r] = Dot(X, RelationWeight(r))
               /\ IsPermutationMatrix(X) =>
                      /\ \A i \in 1..n : \E k \in 1..n :
                             /\ X[i][k] = 1
                             /\ L_0_rels[r][i] = RelationWeight(r)[k]
                      /\ \A k \in 1..n : \E i \in 1..n :
                             /\ L_0_rels[r][i] = RelationWeight(r)[k]
                             /\ \A l \in 1..n : X[l][k] = 1 => l = i

\* Two relations with different weights have been projected from features
\* in shuffled order: the projections differ from each other and from the
\* weights in their own order.
C22_ShuffledFeaturesProjected ==
    /\ RGCN # None /\ num_rels = NumRels
    /\ IsPermutationMatrix(X)
    /\ X # Eye(n)
    /\ W_rel1 # W_rel2
    /\ L_0_rels[1] # L_0_rels[2]
    /\ L_0_rels[1] # W_rel1
    /\ L_0_rels[2] # W_rel2

\* C23: for every drawn 0/1 matrix A, the undirected adjacency obtained by
\* setting the diagonal to 1 and symmetrizing has every degree (row sum)
\* between 1 and n, and the reciprocal of every degree is a finite number.
C23_UndirectedDegreesArePositive ==
    (D # None /\ A_und = Symmetrize(FillDiagonal(A, 1))) =>
        /\ err = "none"
        /\ Len(D) = n
        /\ \A i \in 1..n :
               /\ D[i] = Sum(A_und[i])
               /\ D[i] >= 1
               /\ D[i] <= n
               /\ IsFinite(D_rec[i][i])
               /\ D_rec[i][i] = Rat(1, D[i])

\* The degrees of an undirected adjacency built from a directed draw have
\* been taken: some node has only its self-loop and another has more.
C23_SelfLoopOnlyNodeAveraged ==
    /\ D # None
    /\ ~IsSymmetric(A)
    /\ A_und = Symmetrize(FillDiagonal(A, 1))
    /\ \E i, j \in 1..n : D[i] = 1 /\ D[j] > 1

====
